---- MODULE Spec2Model ----
(***************************************************************************)
(* Model of the two scripts of the repository:                             *)
(*   check.py : PipDependencyResolver (pip check -> parse -> fix)          *)
(*   main.py  : the guided installer (pip checks, environment question,    *)
(*              is_present, install_package_with_deps,                     *)
(*              resolve_dependency_conflict)                               *)
(* External processes (pip, the import system, the user at the prompt) are *)
(* the environment: their results are chosen nondeterministically.         *)
(***************************************************************************)
EXTENDS Integers, Sequences, FiniteSets, TLC

VARIABLES
    \* ---- check.py ----
    ck_pc,        \* position in main()/resolve_dependencies()
    auto_fix,     \* PipDependencyResolver.auto_fix
    ck_output,    \* output of the initial pip check, a sequence of lines
    errors,       \* result of parse_pip_check_output
    idx,          \* 1-based index of the loop over errors
    all_fixed,    \* local all_fixed
    fix_log,      \* commands handed to fix_error, in order, with their result
    checks,       \* results of the run_pip_check invocations, in order
    ck_result,    \* value returned by resolve_dependencies (once ck_pc is
                  \* "returned" or "exit")
    ck_exit,      \* value returned by main (NoExit before)
    \* ---- main.py ----
    pc,           \* position in the main block / is_present / install
    argv,         \* sys.argv
    auto_yes,     \* auto_yes of the main block
    virtual_env,  \* VIRTUAL_ENV is set
    conda_env,    \* CONDA_DEFAULT_ENV is set
    importable,   \* modules importlib.import_module finds
    main_cmds,    \* pip commands run by the main block, in order
    main_asked,   \* questions asked by the main block, with the decision
    last_answer,  \* raw text of the last answer typed at a prompt
    usage,        \* the usage message was printed
    exit_status,  \* status of sys.exit (NoExit while running)
    pos,          \* index of the loop of is_present over its argv
    handled,      \* per package of is_present so far: what was done with it
    \* locals of the current call of install_package_with_deps
    package,      \* its argument
    required,     \* parse_required_packages(dry_run_output)
    conflicts,    \* check_version_conflicts(...), then sorted_conflicts
    ci,           \* index of the loop of resolve_dependency_conflict
    success,      \* local success of resolve_dependency_conflict
    resolution,   \* what resolve_dependency_conflict returned
    asked,        \* questions asked during the call, with the decision
    cmds,         \* pip commands run during the call, in order
    \* ---- a call of check_version_conflicts, on its own ----
    cv_pc,            \* position in check_version_conflicts
    cv_requirements,  \* its argument requirements, as the sequence of entries
    cv_installed,     \* its argument installed: name -> version
    cv_args,          \* both arguments as they were when it was called
    cv_k,             \* index of the loop over requirements.items()
    cv_conflicts      \* local conflicts, as the sequence of its entries

ckvars == <<ck_pc, auto_fix, ck_output, errors, idx, all_fixed, fix_log,
            checks, ck_result, ck_exit>>

blockvars == <<argv, auto_yes, virtual_env, conda_env, main_cmds, main_asked,
               usage, exit_status>>

callvars == <<package, required, conflicts, ci, success, resolution, asked, cmds>>

mainvars == <<pc, blockvars, importable, last_answer, pos, handled, callvars>>

cvvars == <<cv_pc, cv_requirements, cv_installed, cv_args, cv_k, cv_conflicts>>

vars == <<ckvars, mainvars, cvvars>>

-----------------------------------------------------------------------------
(* Bounds *)
MaxLines == 3      \* lines in a pip check output
MaxArgs == 2       \* command-line arguments after the script name
MaxReqs == 2       \* entries of the requirements given to check_version_conflicts

-----------------------------------------------------------------------------
(***************************************************************************)
(* Text.  A line is a sequence of words (the text between single spaces);  *)
(* a word is a record [k, a, b]:                                           *)
(*   name   : a = text matching [a-zA-Z0-9_\-]+                            *)
(*   ver    : a = text matching [0-9\.]+                                   *)
(*   depreq : the word  a b ","  where a matches [a-zA-Z0-9_\-]+ and b is  *)
(*            the text after it (b = "" when the word is just  a ",")      *)
(*   lit    : any other word, a = its text ("" for an empty word)          *)
(***************************************************************************)
W(k, a, b) == [k |-> k, a |-> a, b |-> b]
Name(n) == W("name", n, "")
Ver(v) == W("ver", v, "")
Lit(s) == W("lit", s, "")
DepReq(d, r) == W("depreq", d, r)

\* the text starts with a character of [>=<~!] and has one more at least
StartsWithOperator(b) == b \in {">=2.0", "<3", "==1.5", "~=1.4", "!=2.0"}

LineEmpty == <<>>
LineSpaces == <<Lit(""), Lit("")>>
LineConflictA ==
    <<Name("pkgA"), Ver("1.0"), Lit("has"), Lit("requirement"),
      DepReq("dep", ">=2.0"), Lit("but"), Lit("you"), Lit("have"),
      Name("dep"), Ver("1.0")>>
LineConflictB ==
    <<Name("pkgB"), Ver("2.1"), Lit("has"), Lit("requirement"),
      DepReq("lib", "<3"), Lit("but"), Lit("you"), Lit("have"),
      Name("lib"), Ver("3.2")>>
\* "pkgA 1.0 has requirement dep, but you have dep 1.0": no operator
LineNoOperator ==
    <<Name("pkgA"), Ver("1.0"), Lit("has"), Lit("requirement"),
      DepReq("dep", ""), Lit("but"), Lit("you"), Lit("have"),
      Name("dep"), Ver("1.0")>>
\* "pkgA 1.0 requires dep, which is not installed."
LineMissing ==
    <<Name("pkgA"), Ver("1.0"), Lit("requires"), DepReq("dep", ""),
      Lit("which"), Lit("is"), Lit("not"), Lit("installed.")>>

LineSet == {LineEmpty, LineSpaces, LineConflictA, LineConflictB,
            LineNoOperator, LineMissing}

\* the outputs pip check can produce: 1..MaxLines lines ("" is one empty line)
Outputs == UNION {[1..n -> LineSet] : n \in 1..MaxLines}

\* str.strip() leaves nothing
IsBlank(line) == \A i \in 1..Len(line) : line[i].k = "lit" /\ line[i].a = ""

\* the pattern of parse_pip_check_output matches the words p .. p+9 of line
MatchesAt(line, p) ==
    /\ p + 9 <= Len(line)
    /\ line[p].k = "name"
    /\ line[p+1].k = "ver"
    /\ line[p+2] = Lit("has")
    /\ line[p+3] = Lit("requirement")
    /\ line[p+4].k = "depreq" /\ StartsWithOperator(line[p+4].b)
    /\ line[p+5] = Lit("but")
    /\ line[p+6] = Lit("you")
    /\ line[p+7] = Lit("have")
    /\ line[p+8].k = "name"
    /\ line[p+9].k = "ver"

\* re.search: the leftmost match, 0 when there is none
SearchPattern(line) ==
    IF \E p \in 1..Len(line) : MatchesAt(line, p)
    THEN CHOOSE p \in 1..Len(line) :
            /\ MatchesAt(line, p)
            /\ \A q \in 1..(p-1) : ~MatchesAt(line, q)
    ELSE 0

ConflictError(line, p) ==
    [type |-> "dependency_conflict",
     package |-> line[p].a,
     package_version |-> line[p+1].a,
     dependency |-> line[p+4].a,
     requirement |-> line[p+4].b,
     current_dependency |-> line[p+8].a,
     current_version |-> line[p+9].a,
     raw_message |-> line]

GenericError(line) ==
    [type |-> "generic",
     package |-> "", package_version |-> "", dependency |-> "",
     requirement |-> "", current_dependency |-> "", current_version |-> "",
     raw_message |-> line]

\* mutant of ParseLine: a line the pattern does not match is skipped
ParseLineDropsGeneric(line) ==
    IF IsBlank(line) THEN <<>>
    ELSE IF SearchPattern(line) # 0
         THEN <<ConflictError(line, SearchPattern(line))>>
         ELSE <<>>

\* one iteration of the loop of parse_pip_check_output
ParseLine(line) ==
    IF IsBlank(line) THEN <<>>
    ELSE IF SearchPattern(line) # 0
         THEN <<ConflictError(line, SearchPattern(line))>>
         ELSE <<GenericError(line)>>

RECURSIVE parse_pip_check_output(_)
parse_pip_check_output(output) ==
    IF output = <<>> THEN <<>>
    ELSE ParseLine(Head(output)) \o parse_pip_check_output(Tail(output))

\* suggest_fix: the suggestion as its lines; <<>> stands for None
suggest_fix(error) ==
    IF error.type = "dependency_conflict"
    THEN <<[cmd |-> "pip install --upgrade",
            arg |-> <<error.dependency, error.requirement>>],
           [cmd |-> "# Si cela ne fonctionne pas, essayez:", arg |-> <<>>],
           [cmd |-> "# pip install --upgrade", arg |-> <<error.package>>]>>
    ELSE <<>>

\* mutant of CmdToExecute: the last line of the suggestion
CmdToExecuteLast(fix_cmd) == fix_cmd[Len(fix_cmd)]

\* fix_cmd.split('\n')[0]
CmdToExecute(fix_cmd) == fix_cmd[1]

-----------------------------------------------------------------------------
(* check.py : PipDependencyResolver.resolve_dependencies and main *)

\* mutant of LoopBody: without auto_fix, all_fixed is left as it is
LoopBodyKeepsFixed(error, af, fix_success, fixed) ==
    LET fix_cmd == suggest_fix(error) IN
    IF fix_cmd = <<>>
    THEN [all_fixed |-> FALSE, run |-> <<>>]
    ELSE IF af
         THEN [all_fixed |-> (IF fix_success THEN fixed ELSE FALSE),
               run |-> <<[command |-> CmdToExecute(fix_cmd),
                          ok |-> fix_success]>>]
         ELSE [all_fixed |-> fixed, run |-> <<>>]

\* the body of the loop over errors, for one error: the new all_fixed and
\* the command handed to fix_error (<<>> when none is)
LoopBody(error, af, fix_success, fixed) ==
    LET fix_cmd == suggest_fix(error) IN
    IF fix_cmd = <<>>
    THEN [all_fixed |-> FALSE, run |-> <<>>]
    ELSE IF af
         THEN [all_fixed |-> (IF fix_success THEN fixed ELSE FALSE),
               run |-> <<[command |-> CmdToExecute(fix_cmd),
                          ok |-> fix_success]>>]
         ELSE [all_fixed |-> FALSE, run |-> <<>>]

\* no exit status yet
NoExit == 0 - 1

\* return 0 if success else 1
ExitStatus(ok) == IF ok THEN 0 ELSE 1

CkInit ==
    /\ ck_pc = "start"
    /\ auto_fix \in BOOLEAN
    /\ ck_output = <<>>
    /\ errors = <<>>
    /\ idx = 1
    /\ all_fixed = TRUE
    /\ fix_log = <<>>
    /\ checks = <<>>
    /\ ck_result = FALSE
    /\ ck_exit = NoExit

\* resolve_dependencies, lines 100-117: the initial pip check and the parse
CkInitialCheck ==
    /\ ck_pc = "start"
    /\ \E check_ok \in BOOLEAN, out \in Outputs :
         /\ checks' = Append(checks, check_ok)
         /\ ck_output' = out
         /\ IF check_ok
            THEN /\ ck_result' = TRUE
                 /\ ck_pc' = "returned"
                 /\ UNCHANGED errors
            ELSE /\ errors' = parse_pip_check_output(out)
                 /\ IF errors' = <<>>
                    THEN ck_result' = FALSE /\ ck_pc' = "returned"
                    ELSE ck_result' = FALSE /\ ck_pc' = "loop"
    /\ idx' = 1
    /\ all_fixed' = TRUE
    /\ UNCHANGED <<auto_fix, fix_log, ck_exit>>
    /\ UNCHANGED <<mainvars, cvvars>>

\* one iteration of the loop, lines 118-146
CkFixStep ==
    /\ ck_pc = "loop"
    /\ idx <= Len(errors)
    /\ \E fix_success \in BOOLEAN :
         LET r == LoopBody(errors[idx], auto_fix, fix_success, all_fixed) IN
         /\ (r.run = <<>> => fix_success)   \* no result to choose when nothing is run
         /\ all_fixed' = r.all_fixed
         /\ fix_log' = fix_log \o r.run
    /\ idx' = idx + 1
    /\ UNCHANGED <<ck_pc, auto_fix, ck_output, errors, checks, ck_result, ck_exit>>
    /\ UNCHANGED <<mainvars, cvvars>>

\* lines 148-158: the final pip check and the return value
CkFinalCheck ==
    /\ ck_pc = "loop"
    /\ idx > Len(errors)
    /\ IF all_fixed /\ auto_fix
       THEN \E final_success \in BOOLEAN :
               /\ checks' = Append(checks, final_success)
               /\ ck_result' = final_success
       ELSE /\ ck_result' = all_fixed
            /\ UNCHANGED checks
    /\ ck_pc' = "returned"
    /\ UNCHANGED <<auto_fix, ck_output, errors, idx, all_fixed, fix_log, ck_exit>>
    /\ UNCHANGED <<mainvars, cvvars>>

\* main, lines 168-173
CkMainReturn ==
    /\ ck_pc = "returned"
    /\ ck_exit' = ExitStatus(ck_result)
    /\ ck_pc' = "exit"
    /\ UNCHANGED <<auto_fix, ck_output, errors, idx, all_fixed, fix_log,
                   checks, ck_result>>
    /\ UNCHANGED <<mainvars, cvvars>>

-----------------------------------------------------------------------------
(***************************************************************************)
(* main.py : text and data.                                                *)
(* A command-line argument is a sequence of tokens: a name, a version, or  *)
(* one character of an operator ("=", ">", "<", "~", "!").                 *)
(***************************************************************************)
Script == <<"main.py">>
FlagY == <<"-y">>
ArgPillow == <<"Pillow", "=", "=", "9.0">>      \* Pillow==9.0
ArgRequests == <<"requests", ">", "2.0">>       \* requests>2.0
ArgSet == {FlagY, ArgPillow, ArgRequests}

\* sys.argv at start: the script name and up to MaxArgs arguments
Argvs == {<<Script>> \o a : a \in UNION {[1..n -> ArgSet] : n \in 0..MaxArgs}}

\* what the user can type at a prompt
Answers == {"o", "O", "n", "", "y", "oui"}

\* str.lower() and str.upper() on the answers
Lower(r) == CASE r = "O" -> "o" [] OTHER -> r
Upper(r) == CASE r = "o" -> "O" [] r = "n" -> "N" [] r = "y" -> "Y"
              [] r = "oui" -> "OUI" [] OTHER -> r

\* mutant of IsYes: any answer starting with 'o', 'O' or 'y' is a yes
IsYesLoose(r) == Lower(r) \in {"o", "oui", "y"}

\* response.lower() == 'o' or response.upper() == 'O'
IsYes(r) == Lower(r) = "o" \/ Upper(r) = "O"
\* mutant of IsNo: only 'n' and 'N' are a no
IsNoOnlyN(r) == Lower(r) = "n"

\* response.lower() != 'o' and response.upper() != 'O'
IsNo(r) == Lower(r) # "o" /\ Upper(r) # "O"

\* s.split(c1 + c2)[0]: the text before the first occurrence of c1 c2
SplitHead(s, c1, c2) ==
    IF \E k \in 1..(Len(s) - 1) : s[k] = c1 /\ s[k+1] = c2
    THEN LET k == CHOOSE k \in 1..(Len(s) - 1) :
                    /\ s[k] = c1 /\ s[k+1] = c2
                    /\ \A j \in 1..(k-1) : ~(s[j] = c1 /\ s[j+1] = c2)
         IN SubSeq(s, 1, k - 1)
    ELSE s

\* package.split('==')[0].split('>=')[0].split('<=')[0]
package_name(pkg) ==
    SplitHead(SplitHead(SplitHead(pkg, "=", "="), ">", "="), "<", "=")

\* the entries of PACKAGE_TO_MODULE_MAP for the names of ArgSet
PACKAGE_TO_MODULE_MAP ==
    [n \in {"Pillow", "requests"} |-> IF n = "Pillow" THEN "PIL" ELSE "requests"]
Modules == {"PIL", "requests"}

\* PACKAGE_TO_MODULE_MAP.get(package_name, package_name)
module_name(pkg) ==
    LET n == package_name(pkg) IN
    IF Len(n) = 1 /\ n[1] \in DOMAIN PACKAGE_TO_MODULE_MAP
    THEN <<PACKAGE_TO_MODULE_MAP[n[1]]>>
    ELSE n

\* importlib.import_module(module_name) does not raise ImportError
ImportSucceeds(m, mods) == Len(m) = 1 /\ m[1] \in mods

\* sys.argv.remove('-y'): without its first '-y'
RemoveFirst(s, x) ==
    LET k == CHOOSE k \in 1..Len(s) : s[k] = x /\ \A j \in 1..(k-1) : s[j] # x
    IN SubSeq(s, 1, k - 1) \o SubSeq(s, k + 1, Len(s))

Contains(s, x) == \E k \in 1..Len(s) : s[k] = x

(***************************************************************************)
(* Versions.  version.parse orders the versions; text that is no version   *)
(* makes it raise.                                                         *)
(***************************************************************************)
VersionOrder(v) == CASE v = "1.0" -> 1 [] v = "2.0" -> 2 [] v = "3.0" -> 3
                     [] OTHER -> 0
Parsable(v) == VersionOrder(v) # 0

\* A version requirement is a sequence of clauses [op, ver] (written
\* op ver, joined by commas).
Clause(op, v) == [op |-> op, ver |-> v]

\* op in version_req
HasOp(version_req, op) == \E k \in 1..Len(version_req) : version_req[k].op = op

\* version_req.split(op)[1]: the version of the first clause with op when it
\* is the last clause; otherwise more text follows it ("?" stands for it)
AfterOp(version_req, op) ==
    LET k == CHOOSE k \in 1..Len(version_req) :
                /\ version_req[k].op = op
                /\ \A j \in 1..(k-1) : version_req[j].op # op
    IN IF k = Len(version_req) THEN version_req[k].ver ELSE "?"

extract_compatible_version(version_req) ==
    IF HasOp(version_req, "==") THEN AfterOp(version_req, "==")
    ELSE IF HasOp(version_req, ">=") THEN AfterOp(version_req, ">=")
    ELSE IF HasOp(version_req, "<=") THEN AfterOp(version_req, "<=")
    ELSE "None"

\* meets_version_requirement testing '>=' before '=='
MeetsGeFirst(installed_ver, version_req) ==
    IF HasOp(version_req, ">=")
    THEN LET req_ver == AfterOp(version_req, ">=") IN
         /\ Parsable(installed_ver) /\ Parsable(req_ver)
         /\ VersionOrder(installed_ver) >= VersionOrder(req_ver)
    ELSE IF HasOp(version_req, "==")
    THEN installed_ver = AfterOp(version_req, "==")
    ELSE IF HasOp(version_req, "<=")
    THEN LET req_ver == AfterOp(version_req, "<=") IN
         /\ Parsable(installed_ver) /\ Parsable(req_ver)
         /\ VersionOrder(installed_ver) <= VersionOrder(req_ver)
    ELSE TRUE

meets_version_requirement(installed_ver, version_req) ==
    IF HasOp(version_req, "==")
    THEN installed_ver = AfterOp(version_req, "==")
    ELSE IF HasOp(version_req, ">=")
    THEN LET req_ver == AfterOp(version_req, ">=") IN
         /\ Parsable(installed_ver) /\ Parsable(req_ver)
         /\ VersionOrder(installed_ver) >= VersionOrder(req_ver)
    ELSE IF HasOp(version_req, "<=")
    THEN LET req_ver == AfterOp(version_req, "<=") IN
         /\ Parsable(installed_ver) /\ Parsable(req_ver)
         /\ VersionOrder(installed_ver) <= VersionOrder(req_ver)
    ELSE TRUE

(***************************************************************************)
(* pip install --dry-run output.  A line is                                *)
(*   [kind "satisfied", name, req]  Requirement already satisfied: ... in  *)
(*   [kind "would", pkgs]           Would install name-ver name-ver ...    *)
(*   [kind "other"]                 anything else                          *)
(***************************************************************************)
Satisfied(n, req) == [kind |-> "satisfied", name |-> n, req |-> req, pkgs |-> <<>>]
Would(pkgs) == [kind |-> "would", name |-> "", req |-> <<>>, pkgs |-> pkgs]
Other == [kind |-> "other", name |-> "", req |-> <<>>, pkgs |-> <<>>]
Dist(n, v) == [name |-> n, ver |-> v]

NoOutput == <<[kind |-> "None", name |-> "", req |-> <<>>, pkgs |-> <<>>]>>
OutEmpty == <<>>
OutOther == <<Other>>
OutClean == <<Other, Would(<<Dist("pkg", "1.0")>>)>>
OutOne == <<Satisfied("dep", <<Clause(">=", "2.0")>>),
            Would(<<Dist("pkg", "1.0")>>)>>
OutTwo == <<Satisfied("dep", <<Clause(">=", "2.0")>>),
            Would(<<Dist("lib", "3.0"), Dist("pkg", "1.0")>>)>>
DryRunOutputs == {NoOutput, OutEmpty, OutOther, OutClean, OutOne, OutTwo}

\* get_installed_packages: name -> version
InstalledOld == [n \in {"dep", "lib"} |-> IF n = "dep" THEN "1.0" ELSE "2.0"]
InstalledMixed == [n \in {"dep", "lib"} |-> "2.0"]
InstalledNew == [n \in {"dep", "lib"} |-> IF n = "dep" THEN "2.0" ELSE "3.0"]
InstalledSets == {InstalledOld, InstalledMixed, InstalledNew}

\* len(get_dependent_packages(pkg)) for the installed packages
DependentsChoices ==
    {[n \in {"dep", "lib"} |-> 0],
     [n \in {"dep", "lib"} |-> IF n = "dep" THEN 1 ELSE 0]}

\* index of name in the sequence of entries, 0 when absent
IndexOf(req, n) ==
    IF \E k \in 1..Len(req) : req[k].name = n
    THEN CHOOSE k \in 1..Len(req) : req[k].name = n
    ELSE 0

Entry(n, vr, ev) == [name |-> n, version_req |-> vr, exact_version |-> ev]

\* required[name] = {'version_req': ..., 'exact_version': None}
PutSatisfied(req, n, vr) ==
    IF IndexOf(req, n) = 0 THEN Append(req, Entry(n, vr, "None"))
    ELSE [req EXCEPT ![IndexOf(req, n)] = Entry(n, vr, "None")]

\* the body of the loop over the packages of a "Would install" line
RECURSIVE PutWould(_, _)
PutWould(req, pkgs) ==
    IF pkgs = <<>> THEN req
    ELSE LET d == Head(pkgs)
             k == IndexOf(req, d.name)
             r == IF k # 0
                  THEN [req EXCEPT ![k].exact_version = d.ver]
                  ELSE Append(req, Entry(d.name, <<Clause("==", d.ver)>>, d.ver))
         IN PutWould(r, Tail(pkgs))

\* parse_required_packages: the dict as the sequence of its entries, in
\* insertion order
RECURSIVE ParseFrom(_, _)
ParseFrom(req, lines) ==
    IF lines = <<>> THEN req
    ELSE LET l == Head(lines)
             r == CASE l.kind = "satisfied" -> PutSatisfied(req, l.name, l.req)
                    [] l.kind = "would" -> PutWould(req, l.pkgs)
                    [] OTHER -> req
         IN ParseFrom(r, Tail(lines))

parse_required_packages(out) == ParseFrom(<<>>, out)

\* the conflict check_version_conflicts records for one requirement,
\* <<>> when it records none
ConflictOf(e, installed, deps) ==
    IF e.name \notin DOMAIN installed THEN <<>>
    ELSE LET installed_ver == installed[e.name] IN
         IF e.exact_version # "None" /\ installed_ver # e.exact_version
         THEN <<[name |-> e.name, installed |-> installed_ver,
                 required |-> e.exact_version, dependents |-> deps[e.name]]>>
         ELSE IF e.version_req # <<>>
                 /\ ~meets_version_requirement(installed_ver, e.version_req)
         THEN <<[name |-> e.name, installed |-> installed_ver,
                 required |-> (IF extract_compatible_version(e.version_req) = "None"
                               THEN "?"
                               ELSE extract_compatible_version(e.version_req)),
                 dependents |-> deps[e.name]]>>
         ELSE <<>>

\* check_version_conflicts: the dict as the sequence of its entries
RECURSIVE check_version_conflicts(_, _, _)
check_version_conflicts(req, installed, deps) ==
    IF req = <<>> THEN <<>>
    ELSE ConflictOf(Head(req), installed, deps)
         \o check_version_conflicts(Tail(req), installed, deps)

\* sorted(..., key=len(dependents)): stable insertion sort
RECURSIVE InsertSorted(_, _)
InsertSorted(s, c) ==
    IF s = <<>> THEN <<c>>
    ELSE IF c.dependents < Head(s).dependents THEN <<c>> \o s
    ELSE <<Head(s)>> \o InsertSorted(Tail(s), c)

RECURSIVE SortedConflicts(_)
SortedConflicts(cs) ==
    IF cs = <<>> THEN <<>>
    ELSE InsertSorted(SortedConflicts(SubSeq(cs, 1, Len(cs) - 1)), cs[Len(cs)])

\* confirm_update (never called by the script): whether it asks, and what
\* it returns
confirm_update(yes, response) ==
    IF yes THEN [asks |-> FALSE, result |-> TRUE]
    ELSE [asks |-> TRUE, result |-> IsYes(response)]

-----------------------------------------------------------------------------
(* main.py : the main block *)

NoAnswer == "(none)"

\* packages_to_check = sys.argv[1:]
PackagesToCheck == Tail(argv)

MainInit ==
    /\ pc = "start"
    /\ argv \in Argvs
    /\ auto_yes = FALSE
    /\ virtual_env \in BOOLEAN
    /\ conda_env \in BOOLEAN
    /\ importable \in SUBSET Modules
    /\ main_cmds = <<>>
    /\ main_asked = <<>>
    /\ last_answer = NoAnswer
    /\ usage = FALSE
    /\ exit_status = NoExit
    /\ pos = 1
    /\ handled = <<>>
    /\ package = <<>>
    /\ required = <<>>
    /\ conflicts = <<>>
    /\ ci = 1
    /\ success = TRUE
    /\ resolution = "none"
    /\ asked = <<>>
    /\ cmds = <<>>

Cmd(c, t, ok) == [cmd |-> c, target |-> t, ok |-> ok]
\* the answer is 'o' or 'O'
Affirmative(r) == r \in {"o", "O"}

\* history of a question: which one, and whether the answer was 'o' or 'O'
Question(q, r) == [q |-> q, yes |-> Affirmative(r)]

\* lines 563-566
ParseArgs ==
    /\ pc = "start"
    /\ auto_yes' = Contains(argv, FlagY)
    /\ argv' = IF Contains(argv, FlagY) THEN RemoveFirst(argv, FlagY) ELSE argv
    /\ pc' = "check_pip"
    /\ UNCHANGED <<virtual_env, conda_env, main_cmds, main_asked, usage,
                   exit_status, importable, last_answer, pos, handled, callvars>>
    /\ UNCHANGED <<ckvars, cvvars>>

\* mutant of AfterPipCheck: the script goes on without pip
AfterPipCheckContinues(pip_installed) == "pip_latest"

\* lines 571-574: sys.exit(1) when pip is not installed
AfterPipCheck(pip_installed) == IF pip_installed THEN "pip_latest" ELSE "exit"

\* lines 568-576: check_pip_installed and the exit when pip is missing
CheckPip ==
    /\ pc = "check_pip"
    /\ \E pip_installed \in BOOLEAN :
         /\ main_cmds' = Append(main_cmds, Cmd("pip --version", <<>>, pip_installed))
         /\ pc' = AfterPipCheck(pip_installed)
         /\ exit_status' = IF pc' = "exit" THEN 1 ELSE exit_status
    /\ UNCHANGED <<argv, auto_yes, virtual_env, conda_env, main_asked, usage,
                   importable, last_answer, pos, handled, callvars>>
    /\ UNCHANGED <<ckvars, cvvars>>

\* mutant of Choice: auto_yes is ignored
ChoiceIgnoresAutoYes(yes, answer) == answer

\* the choice made where the code asks unless auto_yes: 'o' under auto_yes
Choice(yes, answer) == IF yes THEN "o" ELSE answer

\* lines 580-592: check_pip_latest_version, the question, update_pip
PipLatest ==
    /\ pc = "pip_latest"
    /\ \E latest \in BOOLEAN, answer \in Answers, updated \in BOOLEAN :
         LET update_pip_choice == Choice(auto_yes, answer)
             ask == ~latest /\ ~auto_yes
             update == ~latest /\ IsYes(update_pip_choice)
         IN
         /\ main_cmds' = main_cmds
                \o <<Cmd("pip install --upgrade pip --dry-run", <<>>, latest)>>
                \o (IF update
                    THEN <<Cmd("pip install --upgrade pip", <<>>, updated)>>
                         \o (IF updated
                             THEN <<Cmd("pip --version", <<>>, TRUE)>>
                             ELSE <<>>)
                    ELSE <<>>)
         /\ main_asked' = IF ask
                          THEN Append(main_asked, Question("update_pip", answer))
                          ELSE main_asked
         /\ last_answer' = IF ask THEN answer ELSE last_answer
    /\ pc' = "env"
    /\ UNCHANGED <<argv, auto_yes, virtual_env, conda_env, usage, exit_status,
                   importable, pos, handled, callvars>>
    /\ UNCHANGED <<ckvars, cvvars>>

is_virtualenv == virtual_env
is_conda_env == conda_env

\* lines 601-617: the environment and the question outside of one
EnvCheck ==
    /\ pc = "env"
    /\ IF is_conda_env \/ is_virtualenv
       THEN /\ pc' = "args"
            /\ UNCHANGED <<main_asked, last_answer, exit_status>>
       ELSE \E answer \in Answers :
               LET proceed == Choice(auto_yes, answer) IN
               /\ main_asked' = IF auto_yes THEN main_asked
                                ELSE Append(main_asked, Question("proceed", answer))
               /\ last_answer' = IF auto_yes THEN last_answer ELSE answer
               /\ IF IsNo(proceed)
                  THEN pc' = "exit" /\ exit_status' = 1
                  ELSE pc' = "args" /\ UNCHANGED exit_status
    /\ UNCHANGED <<argv, auto_yes, virtual_env, conda_env, main_cmds, usage,
                   importable, pos, handled, callvars>>
    /\ UNCHANGED <<ckvars, cvvars>>

\* mutant of NoPackage: argc < 1
NoPackageOffByOne(args) == Len(args) < 1

\* argc < 2
NoPackage(args) == Len(args) < 2

\* lines 594 and 619-625: argc, the usage message, the call of is_present
ArgCheck ==
    /\ pc = "args"
    /\ IF NoPackage(argv)
       THEN usage' = TRUE /\ pc' = "exit" /\ exit_status' = 1
       ELSE pc' = "is_present" /\ UNCHANGED <<usage, exit_status>>
    /\ UNCHANGED <<argv, auto_yes, virtual_env, conda_env, main_cmds, main_asked,
                   importable, last_answer, pos, handled, callvars>>
    /\ UNCHANGED <<ckvars, cvvars>>

-----------------------------------------------------------------------------
(* main.py : is_present *)

Handled(pkg, what) == [package |-> pkg, what |-> what, ret |-> "-"]

\* lines 549-559: one iteration of the loop of is_present, up to the return
\* of import_module or the call of install_package_with_deps
IsPresentStep ==
    /\ pc = "is_present"
    /\ pos <= Len(PackagesToCheck)
    /\ LET pkg == PackagesToCheck[pos] IN
       IF ImportSucceeds(module_name(pkg), importable)
       THEN /\ handled' = Append(handled, Handled(pkg, "present"))
            /\ pos' = pos + 1
            /\ UNCHANGED <<pc, callvars>>
       ELSE /\ handled' = Append(handled, Handled(pkg, "install"))
            /\ pc' = "install"
            /\ package' = pkg
            /\ required' = <<>>
            /\ conflicts' = <<>>
            /\ ci' = 1
            /\ success' = TRUE
            /\ resolution' = "none"
            /\ asked' = <<>>
            /\ cmds' = <<>>
            /\ UNCHANGED pos
    /\ UNCHANGED <<blockvars, importable, last_answer>>
    /\ UNCHANGED <<ckvars, cvvars>>

\* the loop of is_present is over: the script ends
IsPresentEnd ==
    /\ pc = "is_present"
    /\ pos > Len(PackagesToCheck)
    /\ pc' = "exit"
    /\ exit_status' = 0
    /\ UNCHANGED <<argv, auto_yes, virtual_env, conda_env, main_cmds, main_asked,
                   usage, importable, last_answer, pos, handled, callvars>>
    /\ UNCHANGED <<ckvars, cvvars>>

-----------------------------------------------------------------------------
(* main.py : install_package_with_deps and resolve_dependency_conflict *)

\* install_package_with_deps returns ret to is_present, which goes on with
\* the next package
Return(ret) ==
    /\ pc' = "is_present"
    /\ pos' = pos + 1
    /\ handled' = [handled EXCEPT ![Len(handled)].ret = ret]

\* modules a successful pip install of pkg can make importable
NewModules(pkg) ==
    IF pkg[1] \in DOMAIN PACKAGE_TO_MODULE_MAP
    THEN {PACKAGE_TO_MODULE_MAP[pkg[1]]} ELSE {}

\* not dry_run_output
Falsy(out) == out = NoOutput \/ out = OutEmpty

\* lines 311-331: the dry run, the parse, the first conflict check
InstallStart ==
    /\ pc = "install"
    /\ \E out \in DryRunOutputs, installed \in InstalledSets,
          deps \in DependentsChoices :
         /\ cmds' = Append(cmds, Cmd("pip install --dry-run --ignore-installed",
                                     package, out # NoOutput))
         /\ IF Falsy(out)
            THEN Return("False") /\ UNCHANGED <<required, conflicts>>
            ELSE /\ required' = parse_required_packages(out)
                 /\ IF required' = <<>>
                    THEN Return("False") /\ UNCHANGED conflicts
                    ELSE /\ conflicts' = check_version_conflicts(required', installed, deps)
                         /\ pc' = IF conflicts' # <<>> THEN "ask_resolve" ELSE "confirm"
                         /\ UNCHANGED <<pos, handled>>
    /\ UNCHANGED <<blockvars, importable, last_answer, package, ci, success,
                   resolution, asked>>
    /\ UNCHANGED <<ckvars, cvvars>>

\* lines 334-345 and 357-359: whether to resolve, and the call of
\* resolve_dependency_conflict up to its sort (lines 263-267)
ResolveChoice ==
    /\ pc = "ask_resolve"
    /\ \E answer \in Answers :
         LET resolve == IF auto_yes THEN TRUE ELSE IsYes(answer) IN
         /\ asked' = IF auto_yes THEN asked
                     ELSE Append(asked, Question("resolve", answer))
         /\ last_answer' = IF auto_yes THEN last_answer ELSE answer
         /\ IF resolve
            THEN /\ conflicts' = SortedConflicts(conflicts)
                 /\ ci' = 1
                 /\ success' = TRUE
                 /\ pc' = "resolve"
                 /\ UNCHANGED <<pos, handled>>
            ELSE /\ Return("False")
                 /\ UNCHANGED <<conflicts, ci, success>>
    /\ UNCHANGED <<blockvars, importable, package, required, resolution, cmds>>
    /\ UNCHANGED <<ckvars, cvvars>>

\* pkg_name==required_version
Pinned(c) == <<c.name, "=", "=", c.required>>

\* mutant of AfterReinstall: success is the result of the last reinstall
AfterReinstallLast(succ, reinstalled) == reinstalled

\* success after a reinstall: lines 299-301 set it to False when it failed
AfterReinstall(succ, reinstalled) == IF reinstalled THEN succ ELSE FALSE

\* lines 268-306: one iteration of the loop of resolve_dependency_conflict
ResolveStep ==
    /\ pc = "resolve"
    /\ ci <= Len(conflicts)
    /\ \E confirm \in Answers, reinstalled \in BOOLEAN, retry \in Answers :
         LET c == conflicts[ci]
             q1 == IF auto_yes THEN <<>> ELSE <<Question("confirm", confirm)>>
             q2 == IF auto_yes THEN <<>> ELSE <<Question("continue", retry)>>
         IN
         IF ~auto_yes /\ IsNo(confirm)
         THEN /\ asked' = asked \o q1
              /\ last_answer' = confirm
              /\ resolution' = "False"
              /\ Return("False")
              /\ UNCHANGED <<cmds, success, ci>>
         ELSE /\ cmds' = Append(cmds, Cmd("pip install --force-reinstall",
                                          Pinned(c), reinstalled))
              /\ success' = AfterReinstall(success, reinstalled)
              /\ IF reinstalled
                 THEN /\ asked' = asked \o q1
                      /\ last_answer' = IF auto_yes THEN last_answer ELSE confirm
                      /\ ci' = ci + 1
                      /\ UNCHANGED <<resolution, pc, pos, handled>>
                 ELSE /\ asked' = asked \o q1 \o q2
                      /\ last_answer' = IF auto_yes THEN last_answer ELSE retry
                      /\ IF ~auto_yes /\ IsNo(retry)
                         THEN /\ resolution' = "False"
                              /\ Return("False")
                              /\ UNCHANGED ci
                         ELSE /\ ci' = ci + 1
                              /\ UNCHANGED <<resolution, pc, pos, handled>>
    /\ UNCHANGED <<blockvars, importable, package, required, conflicts>>
    /\ UNCHANGED <<ckvars, cvvars>>

\* line 308 and lines 342-356: the return of resolve_dependency_conflict,
\* the second conflict check and the question when conflicts remain
ResolveReturn ==
    /\ pc = "resolve"
    /\ ci > Len(conflicts)
    /\ resolution' = IF success THEN "True" ELSE "False"
    /\ IF ~success
       THEN Return("False") /\ UNCHANGED <<asked, last_answer>>
       ELSE \E installed \in InstalledSets, deps \in DependentsChoices,
               force_install \in Answers :
               LET remaining_conflicts ==
                       check_version_conflicts(required, installed, deps)
                   ask == remaining_conflicts # <<>> /\ ~auto_yes
               IN
               /\ asked' = IF ask THEN Append(asked, Question("force", force_install))
                           ELSE asked
               /\ last_answer' = IF ask THEN force_install ELSE last_answer
               /\ IF ask /\ IsNo(force_install)
                  THEN Return("False")
                  ELSE pc' = "confirm" /\ UNCHANGED <<pos, handled>>
    /\ UNCHANGED <<blockvars, importable, package, required, conflicts, ci,
                   success, cmds>>
    /\ UNCHANGED <<ckvars, cvvars>>

\* lines 361-381: the confirmation and the install of the package
ConfirmInstall ==
    /\ pc = "confirm"
    /\ \E install_choice \in Answers, installed_ok \in BOOLEAN, gain \in BOOLEAN :
         LET confirm == IF auto_yes THEN TRUE ELSE IsYes(install_choice) IN
         /\ asked' = IF auto_yes THEN asked
                     ELSE Append(asked, Question("install", install_choice))
         /\ last_answer' = IF auto_yes THEN last_answer ELSE install_choice
         /\ IF confirm
            THEN /\ cmds' = Append(cmds, Cmd("pip install", package, installed_ok))
                 /\ importable' = IF installed_ok /\ gain
                                  THEN importable \cup NewModules(package)
                                  ELSE importable
                 /\ Return(IF installed_ok THEN "True" ELSE "False")
            ELSE /\ Return("False")
                 /\ UNCHANGED <<cmds, importable>>
    /\ UNCHANGED <<blockvars, package, required, conflicts, ci, success, resolution>>
    /\ UNCHANGED <<ckvars, cvvars>>

-----------------------------------------------------------------------------
(***************************************************************************)
(* main.py: check_version_conflicts called on its own, with requirements   *)
(* and installed packages of every shape                                   *)
(***************************************************************************)

\* version strings; "abc" is text version.parse rejects
CvVersions == {"1.0", "2.0", "3.0", "abc"}

\* version_req values
ReqNone == <<>>                                             \* ''
ReqEq == <<Clause("==", "2.0")>>                            \* ==2.0
ReqEqText == <<Clause("==", "abc")>>                        \* ==abc
ReqGe == <<Clause(">=", "2.0")>>                            \* >=2.0
ReqLe == <<Clause("<=", "2.0")>>                            \* <=2.0
ReqGt == <<Clause(">", "2.0")>>                             \* >2.0
ReqRange == <<Clause(">=", "1.0"), Clause("<", "3.0")>>     \* >=1.0,<3.0
ReqGeEq == <<Clause(">=", "3.0"), Clause("==", "2.0")>>     \* >=3.0,==2.0
ReqLeGe == <<Clause("<=", "1.0"), Clause(">=", "2.0")>>     \* <=1.0,>=2.0
ReqSet == {ReqNone, ReqEq, ReqEqText, ReqGe, ReqLe, ReqGt, ReqRange,
           ReqGeEq, ReqLeGe}

\* the values of the requirements dict: "dep" and "lib" are installed,
\* "pkg" is not
CvEntries ==
    {Entry(n, vr, ev) : n \in {"dep", "lib", "pkg"}, vr \in ReqSet,
                        ev \in {"None", "2.0"}}

\* a dict has one entry per key
DistinctNames(req) ==
    \A j, k \in 1..Len(req) : req[j].name = req[k].name => j = k

CvRequirements ==
    {req \in UNION {[1..n -> CvEntries] : n \in 0..MaxReqs} : DistinctNames(req)}

CvInstalledSets ==
    {[n \in {"dep", "lib"} |-> IF n = "dep" THEN v ELSE "2.0"] : v \in CvVersions}

\* conflicts = {}
CvInit ==
    /\ cv_pc = "loop"
    /\ cv_requirements \in CvRequirements
    /\ cv_installed \in CvInstalledSets
    /\ cv_args = [requirements |-> cv_requirements, installed |-> cv_installed]
    /\ cv_k = 1
    /\ cv_conflicts = <<>>

\* one iteration of  for pkg, req_info in requirements.items()
CvLoopStep ==
    /\ cv_pc = "loop"
    /\ cv_k <= Len(cv_requirements)
    /\ \E deps \in DependentsChoices :
         cv_conflicts' = cv_conflicts
                         \o ConflictOf(cv_requirements[cv_k], cv_installed, deps)
    /\ cv_k' = cv_k + 1
    /\ UNCHANGED <<cv_pc, cv_requirements, cv_installed, cv_args>>
    /\ UNCHANGED <<ckvars, mainvars>>

\* return conflicts
CvReturn ==
    /\ cv_pc = "loop"
    /\ cv_k > Len(cv_requirements)
    /\ cv_pc' = "returned"
    /\ UNCHANGED <<cv_requirements, cv_installed, cv_args, cv_k, cv_conflicts>>
    /\ UNCHANGED <<ckvars, mainvars>>

-----------------------------------------------------------------------------
(* Specifications *)

\* check_version_conflicts is not running on its own
CvIdle ==
    /\ cv_pc = "off"
    /\ cv_requirements = <<>>
    /\ cv_installed = <<>>
    /\ cv_args = <<>>
    /\ cv_k = 1
    /\ cv_conflicts = <<>>

\* check.py is not running
CkIdle ==
    /\ ck_pc = "off"
    /\ auto_fix = FALSE
    /\ ck_output = <<>>
    /\ errors = <<>>
    /\ idx = 1
    /\ all_fixed = TRUE
    /\ fix_log = <<>>
    /\ checks = <<>>
    /\ ck_result = FALSE
    /\ ck_exit = NoExit

\* main.py is not running
MainIdle ==
    /\ pc = "off"
    /\ argv = <<Script>>
    /\ auto_yes = FALSE
    /\ virtual_env = FALSE
    /\ conda_env = FALSE
    /\ importable = {}
    /\ main_cmds = <<>>
    /\ main_asked = <<>>
    /\ last_answer = NoAnswer
    /\ usage = FALSE
    /\ exit_status = NoExit
    /\ pos = 1
    /\ handled = <<>>
    /\ package = <<>>
    /\ required = <<>>
    /\ conflicts = <<>>
    /\ ci = 1
    /\ success = TRUE
    /\ resolution = "none"
    /\ asked = <<>>
    /\ cmds = <<>>

\* main.py
Init == MainInit /\ CkIdle /\ CvIdle

Next ==
    \/ ParseArgs
    \/ CheckPip
    \/ PipLatest
    \/ EnvCheck
    \/ ArgCheck
    \/ IsPresentStep
    \/ IsPresentEnd
    \/ InstallStart
    \/ ResolveChoice
    \/ ResolveStep
    \/ ResolveReturn
    \/ ConfirmInstall

Spec == Init /\ [][Next]_vars

\* check.py
CkNext == CkInitialCheck \/ CkFixStep \/ CkFinalCheck \/ CkMainReturn

InitCheck == CkInit /\ MainIdle /\ CvIdle

SpecCheck == InitCheck /\ [][CkNext]_vars

\* check_version_conflicts
CvNext == CvLoopStep \/ CvReturn

InitConflicts == CvInit /\ MainIdle /\ CkIdle

SpecConflicts == InitConflicts /\ [][CvNext]_vars

-----------------------------------------------------------------------------
(* Claims about main.py, checked under Spec *)

\* install_package_with_deps has been called
HasCall == \E k \in 1..Len(handled) : handled[k].what = "install"

\* what the last call of install_package_with_deps returned ("-" while it
\* runs); asked, cmds and resolution are those of that call
CallRet ==
    LET k == CHOOSE k \in 1..Len(handled) :
                /\ handled[k].what = "install"
                /\ \A j \in (k+1)..Len(handled) : handled[j].what # "install"
    IN handled[k].ret

\* the final pip install <package> of the call was executed
InstallRun == \E k \in 1..Len(cmds) : cmds[k].cmd = "pip install"

Reinstalls == {k \in 1..Len(cmds) : cmds[k].cmd = "pip install --force-reinstall"}

PipInstalled == main_cmds # <<>> /\ main_cmds[1].ok

AskedMain(q) == \E k \in 1..Len(main_asked) : main_asked[k].q = q

DeclinedToProceed ==
    \E k \in 1..Len(main_asked) : main_asked[k].q = "proceed" /\ ~main_asked[k].yes

LastAsked(q) == asked # <<>> /\ asked[Len(asked)].q = q

\* C1: with -y no question is ever asked, and every decision that would
\* have been asked takes the yes branch: pip is upgraded when it is not the
\* latest, the script goes on outside a virtual environment, every conflict
\* is reinstalled, and the package is installed unless a step failed.
C1_AutoYesNeverAsks ==
    auto_yes =>
        /\ main_asked = <<>>
        /\ asked = <<>>
        /\ last_answer = NoAnswer
        /\ \A r \in Answers : confirm_update(TRUE, r) = [asks |-> FALSE, result |-> TRUE]
        /\ \A k \in 1..Len(main_cmds) :
              (main_cmds[k].cmd = "pip install --upgrade pip --dry-run"
                  /\ ~main_cmds[k].ok)
              => /\ k < Len(main_cmds)
                 /\ main_cmds[k+1].cmd = "pip install --upgrade pip"
        /\ exit_status = 1 => (~PipInstalled \/ usage)
        /\ (HasCall /\ CallRet # "-") =>
              /\ \/ InstallRun
                 \/ Len(cmds) = 1
                 \/ \E k \in Reinstalls : ~cmds[k].ok
              /\ Cardinality(Reinstalls) = Len(conflicts)

C1_Witness ==
    /\ auto_yes
    /\ ~virtual_env /\ ~conda_env
    /\ \E k \in 1..Len(main_cmds) : main_cmds[k].cmd = "pip install --upgrade pip"
    /\ HasCall /\ CallRet = "True"
    /\ Len(conflicts) = 2
    /\ Len(cmds) = 4

\* C4: without -y the final pip install <package> is executed only after
\* the answer 'o' or 'O' to the install question, any other answer cancels
\* the install, and install_package_with_deps returns True only when that
\* command was executed and succeeded.
C4_InstallOnlyAfterYes ==
    ~auto_yes =>
        /\ InstallRun => (LastAsked("install") /\ last_answer \in {"o", "O"})
        /\ (LastAsked("install") /\ last_answer \notin {"o", "O"})
              => (~InstallRun /\ CallRet = "False")
        /\ (HasCall /\ CallRet = "True")
              => cmds[Len(cmds)] = Cmd("pip install", package, TRUE)

C4_Witness ==
    /\ ~auto_yes
    /\ HasCall /\ CallRet = "True"
    /\ last_answer = "O"
    /\ InstallRun

\* C5: when pip is not installed the script exits with status 1 before any
\* question, any pip upgrade and any check or install of a package.
C5_PipMissingExits ==
    (main_cmds # <<>> /\ ~main_cmds[1].ok) =>
        /\ pc = "exit"
        /\ exit_status = 1
        /\ Len(main_cmds) = 1
        /\ main_asked = <<>> /\ asked = <<>> /\ last_answer = NoAnswer
        /\ handled = <<>> /\ cmds = <<>>
        /\ ~usage

C5_Witness ==
    /\ pc = "exit"
    /\ main_cmds # <<>> /\ ~main_cmds[1].ok
    /\ ~auto_yes
    /\ Len(argv) = 3

\* C6 as stated: with no package name the script prints the usage message
\* and exits with status 1, and is_present is never called.
C6_Original ==
    (pc = "exit" /\ Len(argv) < 2) =>
        /\ usage
        /\ exit_status = 1
        /\ handled = <<>> /\ cmds = <<>>

\* C6 amended: with no package name the script exits with status 1 and
\* is_present is never called; the usage message is printed unless the
\* script has exited before the argument check, because pip is missing or
\* the user declined to go on outside a virtual environment.
C6_NoPackageExits ==
    /\ (pc = "exit" /\ Len(argv) < 2) =>
          /\ exit_status = 1
          /\ handled = <<>> /\ cmds = <<>>
          /\ usage <=> (PipInstalled /\ ~DeclinedToProceed)
    /\ usage => (pc = "exit" /\ Len(argv) < 2)

C6_Witness ==
    /\ pc = "exit"
    /\ usage
    /\ auto_yes
    /\ exit_status = 1
    /\ ~virtual_env /\ ~conda_env

\* the script is past the question about the environment
PastEnv == pc \notin {"off", "start", "check_pip", "pip_latest", "env"}

\* C7 as stated: outside a virtual and a conda environment and without -y
\* the user is asked whether to continue, any answer other than 'o'/'O'
\* exits with status 1 before any package is checked or installed, and
\* inside an environment the question is never asked.
C7_Original ==
    /\ (PastEnv /\ ~virtual_env /\ ~conda_env /\ ~auto_yes) => AskedMain("proceed")
    /\ DeclinedToProceed =>
          (pc = "exit" /\ exit_status = 1 /\ handled = <<>> /\ cmds = <<>>)
    /\ (virtual_env \/ conda_env) => ~AskedMain("proceed")

\* C7 amended: the same, for a run in which pip is installed (without pip
\* the script exits before the question).
C7_EnvironmentQuestion ==
    /\ (PastEnv /\ PipInstalled /\ ~virtual_env /\ ~conda_env /\ ~auto_yes)
          => AskedMain("proceed")
    /\ DeclinedToProceed =>
          (pc = "exit" /\ exit_status = 1 /\ handled = <<>> /\ cmds = <<>>)
    /\ (virtual_env \/ conda_env) => ~AskedMain("proceed")

C7_Witness ==
    /\ pc = "exit"
    /\ exit_status = 1
    /\ DeclinedToProceed
    /\ last_answer = "oui"
    /\ Len(argv) >= 2

\* C9: resolve_dependency_conflict returns True exactly when every conflict
\* was confirmed and its forced reinstall succeeded (a failed reinstall
\* makes it False even when the user continues and the later ones succeed),
\* and when it returns False install_package_with_deps returns False
\* without the final install.
C9_ResolveResult ==
    resolution # "none" =>
        /\ resolution = "True" <=>
              /\ Cardinality(Reinstalls) = Len(conflicts)
              /\ \A k \in Reinstalls : cmds[k].ok
              /\ ~auto_yes =>
                    Cardinality({k \in 1..Len(asked) :
                                    asked[k].q = "confirm" /\ asked[k].yes})
                       = Len(conflicts)
        /\ resolution = "False" => (CallRet = "False" /\ ~InstallRun)

C9_Witness ==
    /\ resolution = "False"
    /\ ~auto_yes
    /\ Len(cmds) = 3
    /\ ~cmds[2].ok /\ cmds[3].ok
    /\ \E k \in 1..Len(asked) : asked[k].q = "continue" /\ asked[k].yes

\* the module the claim names for a package: its name without the version
\* specifier, mapped through PACKAGE_TO_MODULE_MAP when it is a key
ClaimedModule(pkg) ==
    IF pkg[1] \in DOMAIN PACKAGE_TO_MODULE_MAP
    THEN PACKAGE_TO_MODULE_MAP[pkg[1]] ELSE pkg[1]

\* is_present takes the packages one by one in command-line order, whatever
\* the earlier installs returned, and calls install_package_with_deps once
\* for each package it does not find
IsPresentOrder ==
    /\ Len(handled) <= Len(PackagesToCheck)
    /\ \A k \in 1..Len(handled) : handled[k].package = PackagesToCheck[k]
    /\ \A k \in 1..Len(handled) : handled[k].what = "present" => handled[k].ret = "-"
    /\ pc = "is_present" => Len(handled) = pos - 1
    /\ (pc = "exit" /\ exit_status = 0) =>
          /\ Len(handled) = Len(PackagesToCheck)
          /\ \A k \in 1..Len(handled) :
                handled[k].what = "install" => handled[k].ret \in {"True", "False"}

\* C10: the packages are handled one by one in command-line order; for a
\* package whose module (mapped through PACKAGE_TO_MODULE_MAP, else its name
\* without the version specifier) imports, no pip command is executed,
\* otherwise install_package_with_deps is called once; a failed or cancelled
\* install does not stop the following packages.
C10_IsPresent ==
    /\ IsPresentOrder
    /\ pc = "install" => ClaimedModule(package) \notin importable

\* what holds of C10: the same with the module name as is_present computes
\* it, which strips '==', '>=' and '<=' only
C10_WithModuleName ==
    /\ IsPresentOrder
    /\ pc = "install" => ~ImportSucceeds(module_name(package), importable)

-----------------------------------------------------------------------------
(* Claims about check.py, checked under SpecCheck *)

\* resolve_dependencies has returned
CkReturned == ck_pc \in {"returned", "exit"}

\* the non-blank lines of a pip check output
NonBlank(output) == {k \in 1..Len(output) : ~IsBlank(output[k])}

\* C2: without auto_fix no command is ever handed to fix_error, pip check
\* is run exactly once, and a failing check makes resolve_dependencies
\* return False.
C2_NoFixWithoutAutoFix ==
    (ck_pc # "off" /\ ~auto_fix) =>
        /\ fix_log = <<>>
        /\ Len(checks) <= 1
        /\ CkReturned => /\ Len(checks) = 1
                         /\ (~checks[1] => ~ck_result)

C2_Witness ==
    /\ ck_pc = "exit"
    /\ ~auto_fix
    /\ checks = <<FALSE>>
    /\ \E k \in 1..Len(errors) : errors[k].type = "dependency_conflict"
    /\ \A k \in 1..Len(errors) : errors[k].type # "generic"
    /\ ck_exit = 1

\* C3: main returns 0 exactly when resolve_dependencies returns True, and
\* that is exactly when the initial pip check succeeds, or auto_fix is on,
\* the output has a non-blank line, every non-blank line matches the
\* dependency-conflict pattern, every fix command succeeds and the final
\* pip check succeeds; otherwise False and exit status 1.
C3_ExitStatus ==
    /\ ck_pc = "exit" => /\ ck_exit \in {0, 1}
                         /\ (ck_exit = 0 <=> ck_result)
    /\ CkReturned =>
         (ck_result <=>
            \/ checks[1]
            \/ /\ auto_fix
               /\ NonBlank(ck_output) # {}
               /\ \A k \in NonBlank(ck_output) : SearchPattern(ck_output[k]) # 0
               /\ Len(fix_log) = Cardinality(NonBlank(ck_output))
               /\ \A k \in 1..Len(fix_log) : fix_log[k].ok
               /\ Len(checks) = 2
               /\ checks[2])

C3_Witness ==
    /\ ck_pc = "exit"
    /\ ck_exit = 0
    /\ checks = <<FALSE, TRUE>>
    /\ Len(fix_log) = 2
    /\ \E k \in 1..Len(ck_output) : IsBlank(ck_output[k])

\* the fix commands the claim expects for the lines of an output: for each
\* line matching the pattern, in order, pip install --upgrade of the
\* dependency with its requirement
RECURSIVE ExpectedFixes(_)
ExpectedFixes(lines) ==
    IF lines = <<>> THEN <<>>
    ELSE LET l == Head(lines)
             p == SearchPattern(l)
         IN (IF ~IsBlank(l) /\ p # 0
             THEN <<[cmd |-> "pip install --upgrade",
                     arg |-> <<l[p+4].a, l[p+4].b>>]>>
             ELSE <<>>)
            \o ExpectedFixes(Tail(lines))

Commands(log) == [k \in 1..Len(log) |-> log[k].command]

\* C8: with auto_fix and a failing initial check, the commands handed to
\* fix_error are, in the order of the lines of the output, exactly one
\* pip install --upgrade <dependency><requirement> per dependency_conflict
\* line (whatever the result of earlier attempts), none for generic errors
\* and never the alternative command.
C8_FixAttempts ==
    (auto_fix /\ Len(checks) >= 1 /\ ~checks[1]) =>
        /\ ck_pc = "loop" =>
             Commands(fix_log) =
                ExpectedFixes([k \in 1..(idx - 1) |-> errors[k].raw_message])
        /\ CkReturned => Commands(fix_log) = ExpectedFixes(ck_output)

C8_Witness ==
    /\ ck_pc = "exit"
    /\ auto_fix
    /\ Len(fix_log) = 2
    /\ ~fix_log[1].ok
    /\ fix_log[2].ok
    /\ \E k \in 1..Len(errors) : errors[k].type = "generic"

-----------------------------------------------------------------------------
(* Claims about check_version_conflicts, checked under SpecConflicts *)

CvReturned == cv_pc = "returned"

\* pkg is a key of the returned conflicts
Reported(n) == \E k \in 1..Len(cv_conflicts) : cv_conflicts[k].name = n

RequiredNames == {cv_requirements[k].name : k \in 1..Len(cv_requirements)}

\* exact_version is set and differs from the installed version string
ExactDiffers(e) ==
    /\ e.exact_version # "None"
    /\ cv_installed[e.name] # e.exact_version

\* the first of '==', '>=', '<=' the requirement contains, "None" when it
\* contains none of them
RecognisedOp(version_req) ==
    IF HasOp(version_req, "==") THEN "=="
    ELSE IF HasOp(version_req, ">=") THEN ">="
    ELSE IF HasOp(version_req, "<=") THEN "<="
    ELSE "None"

\* the requirement as described with every unparsable version not satisfied
DescribedMeetsAlways(installed_ver, version_req) ==
    LET op == RecognisedOp(version_req) IN
    IF op = "None" THEN TRUE
    ELSE LET req_ver == AfterOp(version_req, op) IN
         IF ~Parsable(installed_ver) \/ ~Parsable(req_ver) THEN FALSE
         ELSE CASE op = "==" -> installed_ver = req_ver
                [] op = ">=" -> VersionOrder(installed_ver) >= VersionOrder(req_ver)
                [] op = "<=" -> VersionOrder(installed_ver) <= VersionOrder(req_ver)

\* the requirement as described with '==' comparing the two version strings
\* and an unparsable version not satisfied under '>=' and '<='
DescribedMeets(installed_ver, version_req) ==
    LET op == RecognisedOp(version_req) IN
    IF op = "None" THEN TRUE
    ELSE LET req_ver == AfterOp(version_req, op) IN
         IF op = "==" THEN installed_ver = req_ver
         ELSE IF ~Parsable(installed_ver) \/ ~Parsable(req_ver) THEN FALSE
         ELSE IF op = ">=" THEN VersionOrder(installed_ver) >= VersionOrder(req_ver)
         ELSE VersionOrder(installed_ver) <= VersionOrder(req_ver)

\* the returned conflicts are the ones described, Meets standing for the
\* description of meets_version_requirement
ReportsAsDescribed(Meets(_, _)) ==
    /\ \A k \in 1..Len(cv_conflicts) :
          /\ cv_conflicts[k].name \in RequiredNames
          /\ cv_conflicts[k].name \in DOMAIN cv_installed
    /\ \A k \in 1..Len(cv_requirements) :
          LET e == cv_requirements[k] IN
          e.name \in DOMAIN cv_installed =>
              (Reported(e.name) <=>
                  \/ ExactDiffers(e)
                  \/ /\ ~ExactDiffers(e)
                     /\ e.version_req # <<>>
                     /\ ~Meets(cv_installed[e.name], e.version_req))

ArgumentsUnchanged ==
    /\ cv_requirements = cv_args.requirements
    /\ cv_installed = cv_args.installed

\* C11 as stated: check_version_conflicts reports only packages that are
\* required and installed, and such a package exactly when its exact_version
\* is set and differs from the installed version string or, otherwise, its
\* version_req is non-empty and not met, where '==', '>=', '<=' are tested in
\* that order, any other operator is satisfied and every unparsable version is
\* not satisfied; the two arguments are left unchanged.
C11_Original ==
    /\ cv_pc # "off" => ArgumentsUnchanged
    /\ CvReturned => ReportsAsDescribed(DescribedMeetsAlways)

\* C11: check_version_conflicts reports only packages that are required and
\* installed, and such a package exactly when its exact_version is set and
\* differs from the installed version string or, otherwise, its version_req is
\* non-empty and not met, where '==', '>=', '<=' are tested in that order, '=='
\* compares the two version strings without parsing them, an unparsable
\* version under '>=' or '<=' is not satisfied and any other operator is
\* satisfied; the two arguments are left unchanged.
C11_VersionConflicts ==
    /\ cv_pc # "off" => ArgumentsUnchanged
    /\ CvReturned => ReportsAsDescribed(DescribedMeets)

\* the call returned; an installed package whose unparsable version is the
\* text after '==' was not reported, and another package was reported
C11_Witness ==
    /\ CvReturned
    /\ cv_conflicts # <<>>
    /\ \E k \in 1..Len(cv_requirements) :
          LET e == cv_requirements[k] IN
          /\ e.name \in DOMAIN cv_installed
          /\ e.exact_version = "None"
          /\ RecognisedOp(e.version_req) = "=="
          /\ ~Parsable(cv_installed[e.name])
          /\ ~Reported(e.name)

====
